---- MODULE Spec2Model ----
(***************************************************************************)
(* A model of the alabhelpers package: the DynamoDB table accessor and     *)
(* paginated query (boto3helpers.py), the route dispatcher and response    *)
(* formatter (lambdahelpers.py), the RDS data-API helpers (rdshelpers.py)  *)
(* and the logger factory (loghelpers.py).                                 *)
(*                                                                         *)
(* Python values are modelled as tagged records [type, val], val being a   *)
(* sequence of one-character strings, so that None, "", "abc", 0, {} and   *)
(* [] stay distinct and truthiness, slicing and parsing can be computed.   *)
(* Collaborators (the boto3 table, the rds-data client, the route table,   *)
(* the handlers, the processor callback) are mocks whose calls are logged  *)
(* in `effects`.                                                           *)
(***************************************************************************)
EXTENDS Integers, Sequences, FiniteSets, TLC

VARIABLES
    environ,        \* os.environ: variable name -> value, Unset when absent
    call,           \* the invocation in progress or last made: function and arguments
    outcome,        \* how the invocation ended: returned value or raised error
    effects,        \* calls made on the collaborators during the invocation, in order
    pc,             \* position of the invocation: idle, inside query_table's loop, done
    ddb_response,   \* query_table's local ddb_response
    lastkey,        \* query_table's local lastkey
    record_count,   \* query_table's local record_count
    loggers         \* the logging module's registry: logger -> level, propagate, handlers

vars == <<environ, call, outcome, effects, pc, ddb_response, lastkey, record_count, loggers>>

----------------------------------------------------------------------------
(* Python values *)

None == [type |-> "NoneType", val |-> <<>>]
PyStr(s) == [type |-> "str", val |-> s]
PyInt(s) == [type |-> "int", val |-> s]
PyBool(s) == [type |-> "bool", val |-> s]
PyDict(s) == [type |-> "dict", val |-> s]
PyList(s) == [type |-> "list", val |-> s]
PyDateTime(s) == [type |-> "datetime", val |-> s]

PyTrue == PyBool(<<"T">>)
PyFalse == PyBool(<<"F">>)

\* Python truth value testing: None, "", 0, False, {} and [] are false.
Truthy(v) ==
    CASE v.type = "NoneType" -> FALSE
      [] v.type = "int" -> v.val # <<"0">>
      [] v.type = "bool" -> v = PyTrue
      [] OTHER -> v.val # <<>>

\* `a or b`
Or(a, b) == IF Truthy(a) THEN a ELSE b

\* an absent os.environ entry
Unset == [type |-> "unset", val |-> <<>>]

\* os.environ.get(name, default)
EnvGet(name, default) == IF environ[name] = Unset THEN default ELSE environ[name]

\* dict.get(key) on a mapping modelled as a function: None when the key is absent
DictGet(d, key) == IF key \in DOMAIN d THEN d[key] ELSE None

NoCall == [fn |-> "none"]
NoOutcome == [kind |-> "none"]
Returned(v) == [kind |-> "return", value |-> v]
Raised(t, m) == [kind |-> "raise", error |-> t, message |-> m]

EnvNames == {"TABLE", "OTHER_TABLE", "AURORA_SECRET_ARN", "AURORA_CLUSTER_ARN", "DATABASE",
             "LOGLEVEL", "LAMBDA_TASK_ROOT"}
NoEnv == [n \in EnvNames |-> Unset]

----------------------------------------------------------------------------
(* boto3helpers.query_table *)

\* the most queries one store answers before its result is exhausted
MaxPages == 3

KeyConditions == {"pk=1", "pk=2"}
Kwargs == {"ctx1", "ctx2"}
ItemLists == {<<>>, <<"i1">>, <<"i1", "i2">>}
Cursors == {PyDict(<<"1">>), PyDict(<<"2">>)}

\* what table.query may answer: a page of items, with or without a cursor
\* (a finite result: the MaxPages-th answer carries none)
StoreResponses(nqueries) ==
    {[Items |-> i] : i \in ItemLists}
    \cup (IF nqueries < MaxPages
          THEN {[Items |-> i, LastEvaluatedKey |-> c] : i \in ItemLists, c \in Cursors}
          ELSE {})

Queries == SelectSeq(effects, LAMBDA e : e.kind = "query")
Responses == SelectSeq(effects, LAMBDA e : e.kind = "response")
ProcessorCalls == SelectSeq(effects, LAMBDA e : e.kind = "processor")

QueryEffect(args) == [kind |-> "query", args |-> args]
ResponseEffect(r) == [kind |-> "response", value |-> r]
ProcessorEffect(items, kwargs) == [kind |-> "processor", items |-> items, kwargs |-> kwargs]

\* line 38: table.query(KeyConditionExpression=keycondition)
FirstQueryArgs(keycondition) == [KeyConditionExpression |-> keycondition]

\* NextQueryArgs with a fault: keeps the cursor of the first page
NextQueryArgsStale(keycondition, key) ==
    [KeyConditionExpression |-> keycondition,
     ExclusiveStartKey |-> DictGet(Responses[1].value, "LastEvaluatedKey")]

\* lines 47-50: table.query(KeyConditionExpression=keycondition, ExclusiveStartKey=lastkey)
NextQueryArgs(keycondition, key) ==
    [KeyConditionExpression |-> keycondition, ExclusiveStartKey |-> key]

\* LoopCondition with a fault: stops at an empty page
LoopConditionNonEmpty(key) == key # None /\ Len(ddb_response["Items"]) > 0

\* line 46: while lastkey is not None
LoopCondition(key) == key # None

\* lines 41-43, 55-57: processor(items=ddb_response["Items"], **kwargs)
PageCallbacks(response, kwargs) == <<ProcessorEffect(response["Items"], kwargs)>>

\* lines 37-44: the first query, its page handed to the processor
QueryTableFirst ==
    /\ pc = "idle"
    /\ \E keycondition \in KeyConditions, kwargs \in Kwargs, r \in StoreResponses(1) :
        /\ call' = [fn |-> "query_table", keycondition |-> keycondition, kwargs |-> kwargs]
        /\ ddb_response' = r
        /\ record_count' = Len(r["Items"])
        /\ effects' = <<QueryEffect(FirstQueryArgs(keycondition)), ResponseEffect(r)>>
                        \o PageCallbacks(r, kwargs)
        /\ lastkey' = DictGet(r, "LastEvaluatedKey")
    /\ pc' = "loop"
    /\ UNCHANGED <<environ, outcome, loggers>>

\* lines 46-57: one turn of the while loop
QueryTableLoop ==
    /\ pc = "loop"
    /\ LoopCondition(lastkey)
    /\ \E r \in StoreResponses(Len(Queries) + 1) :
        /\ ddb_response' = r
        /\ record_count' = record_count + Len(r["Items"])
        /\ lastkey' = DictGet(r, "LastEvaluatedKey")
        /\ effects' = effects
                        \o <<QueryEffect(NextQueryArgs(call.keycondition, lastkey)),
                             ResponseEffect(r)>>
                        \o PageCallbacks(r, call.kwargs)
    /\ UNCHANGED <<environ, call, outcome, pc, loggers>>

\* lines 46, 58: the loop ends and query_table returns None
QueryTableReturn ==
    /\ pc = "loop"
    /\ ~LoopCondition(lastkey)
    /\ pc' = "done"
    /\ outcome' = Returned(None)
    /\ UNCHANGED <<environ, call, effects, ddb_response, lastkey, record_count, loggers>>

InitQuery ==
    /\ environ = NoEnv
    /\ call = NoCall
    /\ outcome = NoOutcome
    /\ effects = <<>>
    /\ pc = "idle"
    /\ ddb_response = [Items |-> <<>>]
    /\ lastkey = None
    /\ record_count = 0
    /\ loggers = <<>>

NextQuery == QueryTableFirst \/ QueryTableLoop \/ QueryTableReturn

SpecQuery == InitQuery /\ [][NextQuery]_vars

\* C1: every page the store returns is handed to the processor exactly once, the
\* k-th call receiving the k-th page's items (empty pages included), right after
\* that page's response and before the next query or the return; a query is
\* never issued after a response without LastEvaluatedKey, and query_table
\* returns only after such a response.
C1_OncePerPageUntilNoCursor ==
    /\ Len(Queries) = Len(Responses)
    /\ Len(ProcessorCalls) = Len(Responses)
    /\ Len(effects) = 3 * Len(Responses)
    /\ \A k \in 1..Len(Responses) :
        /\ effects[3 * k - 2].kind = "query"
        /\ effects[3 * k - 1].kind = "response"
        /\ effects[3 * k].kind = "processor"
        /\ ProcessorCalls[k].items = Responses[k].value["Items"]
        /\ ProcessorCalls[k].kwargs = call.kwargs
        /\ k < Len(Responses) => "LastEvaluatedKey" \in DOMAIN Responses[k].value
    /\ pc = "done" =>
        /\ Len(Responses) >= 1
        /\ "LastEvaluatedKey" \notin DOMAIN Responses[Len(Responses)].value
        /\ outcome = Returned(None)
    /\ pc # "done" => outcome = NoOutcome

\* three pages, the second one empty, and query_table has returned
C1_Witness ==
    /\ pc = "done"
    /\ Len(Responses) = 3
    /\ Responses[2].value["Items"] = <<>>
    /\ Len(ProcessorCalls) = 3

\* C2: the first query carries no ExclusiveStartKey; every later query carries
\* exactly the LastEvaluatedKey of the response just before it; all queries
\* carry the caller's key condition.
C2_CursorPassedUnmodified ==
    \A k \in 1..Len(Queries) :
        /\ Queries[k].args["KeyConditionExpression"] = call.keycondition
        /\ k = 1 => DOMAIN Queries[k].args = {"KeyConditionExpression"}
        /\ k > 1 =>
            /\ DOMAIN Queries[k].args = {"KeyConditionExpression", "ExclusiveStartKey"}
            /\ "LastEvaluatedKey" \in DOMAIN Responses[k - 1].value
            /\ Queries[k].args["ExclusiveStartKey"] = Responses[k - 1].value["LastEvaluatedKey"]

\* a third query was issued after two pages whose cursors differ
C2_Witness ==
    /\ Len(Queries) = 3
    /\ Responses[1].value["LastEvaluatedKey"] # Responses[2].value["LastEvaluatedKey"]

----------------------------------------------------------------------------
(* lambdahelpers.route_and_execute *)

\* the longest event path
MaxPathLen == 4

\* characters of an event path; "2" and "F" are hexadecimal digits, "x" is not
PathChars == {"/", "%", "2", "F", "x"}
Paths == UNION {[1..n -> PathChars] : n \in 0..MaxPathLen}
Verbs == {"GET", "POST"}

\* U+FFFD, which a byte that is not valid UTF-8 decodes to
Replacement == "U+FFFD"

IsHex(c) == c \in {"2", "F"}

\* the character of the byte written %hl: 0x22 and 0x2F are ASCII, 0xF2 and
\* 0xFF are not UTF-8 on their own and decode with errors='replace'
DecodeByte(h, l) ==
    CASE h = "2" /\ l = "2" -> "\""
      [] h = "2" /\ l = "F" -> "/"
      [] OTHER -> Replacement

\* urllib.parse.unquote: %hh becomes its character, any other % stays
RECURSIVE Unquote(_)
Unquote(p) ==
    IF p = <<>> THEN <<>>
    ELSE IF p[1] = "%" /\ Len(p) >= 3 /\ IsHex(p[2]) /\ IsHex(p[3])
         THEN <<DecodeByte(p[2], p[3])>> \o Unquote(SubSeq(p, 4, Len(p)))
         ELSE <<p[1]>> \o Unquote(Tail(p))

\* the JSON escape of one character (ensure_ascii)
JsonEscapeChar(c) ==
    CASE c = "\"" -> <<"\\", "\"">>
      [] c = "\\" -> <<"\\", "\\">>
      [] c = Replacement -> <<"\\", "u", "f", "f", "f", "d">>
      [] OTHER -> <<c>>

RECURSIVE JsonEscape(_)
JsonEscape(s) == IF s = <<>> THEN <<>> ELSE JsonEscapeChar(s[1]) \o JsonEscape(Tail(s))

\* json.dumps of a str
JsonDumpsStr(s) == <<"\"">> \o JsonEscape(s) \o <<"\"">>

DEFAULT_HEADERS ==
    [ACAllowHeaders |-> "Content-Type", ACAllowOrigin |-> "*",
     ACAllowMethods |-> "OPTIONS,POST,GET"]

\* response(content, status=status) for a str content
response(content, status) ==
    [statusCode |-> status,
     headers |-> [ContentType |-> "application/json", defaults |-> DEFAULT_HEADERS],
     body |-> JsonDumpsStr(content)]

\* the JSON texts an event body may hold, and one text that is not JSON
EmptyObjectText == <<"{", "}">>
ObjectText == <<"{", "\"", "a", "\"", ":", "1", "}">>
ArrayText == <<"[", "1", "]">>
NotJsonText == <<"x">>

\* json.loads: a str is parsed, anything that is not str or bytes is a TypeError
JsonLoads(v) ==
    IF v.type # "str" THEN [ok |-> FALSE, error |-> "TypeError"]
    ELSE CASE v.val = EmptyObjectText -> [ok |-> TRUE, value |-> PyDict(<<>>)]
           [] v.val = ObjectText -> [ok |-> TRUE, value |-> PyDict(<<"a", "1">>)]
           [] v.val = ArrayText -> [ok |-> TRUE, value |-> PyList(<<"1">>)]
           [] OTHER -> [ok |-> FALSE, error |-> "JSONDecodeError"]

Bodies ==
    {None, PyStr(<<>>), PyStr(EmptyObjectText), PyStr(ObjectText), PyStr(ArrayText),
     PyStr(NotJsonText), PyDict(<<>>), PyDict(<<"a", "1">>), PyList(<<>>), PyList(<<"1">>)}

\* the application's route table, as in the docstring's mapper.connect example:
\*   "/:id" [GET] -> get_item, "/" [POST] -> post_root
\* routes.match answers the matched route's dict, or None
RoutesMatch(path, verb) ==
    IF /\ verb = "GET"
       /\ Len(path) >= 2
       /\ path[1] = "/"
       /\ \A i \in 2..Len(path) : path[i] # "/"
    THEN [controller |-> "get_item", id |-> SubSeq(path, 2, Len(path))]
    ELSE IF verb = "POST" /\ path = <<"/">>
         THEN [controller |-> "post_root"]
         ELSE None

\* what a handler may return
HandlerResults == {response(<<"o", "k">>, 200), response(<<"n", "o">>, 404)}

HandlerEffect(match, body) ==
    [kind |-> "handler", controller |-> match.controller, body |-> body, kwargs |-> match]

\* line 89: verb = event.get("httpMethod", "")
EventVerb(event) == IF "httpMethod" \in DOMAIN event THEN event["httpMethod"] ELSE ""

\* BodyArgument with a fault: without the `or "{}"`
BodyArgumentNoDefault(event) ==
    LET body == DictGet(event, "body")
    IN IF body.type # "dict" THEN JsonLoads(body) ELSE [ok |-> TRUE, value |-> body]

\* lines 93-96: body = event.get("body") or "{}", parsed unless its type is dict
BodyArgument(event) ==
    LET body == Or(DictGet(event, "body"), PyStr(EmptyObjectText))
    IN IF body.type # "dict" THEN JsonLoads(body) ELSE [ok |-> TRUE, value |-> body]

InvalidSuffix == <<" ", "i", "s", " ", "i", "n", "v", "a", "l", "i", "d">>

\* NoMatchResponse with a fault: the message does not name the path
NoMatchResponseNoPath(event) == response(<<"p", "a", "t", "h">> \o InvalidSuffix, 400)

\* line 101: response(f"{urllib.parse.unquote(event['path'])} is invalid", status=400)
NoMatchResponse(event) == response(Unquote(event["path"]) \o InvalidSuffix, 400)

\* lines 89-101: the outcome of route_and_execute and the handler calls it makes,
\* the matched handler returning result
route_and_execute(event, result) ==
    LET match == RoutesMatch(Unquote(event["path"]), EventVerb(event))
        body == BodyArgument(event)
    IN IF match # None
       THEN IF body.ok
            THEN [outcome |-> Returned(result), effects |-> <<HandlerEffect(match, body.value)>>]
            ELSE [outcome |-> Raised(body.error, <<>>), effects |-> <<>>]
       ELSE [outcome |-> Returned(NoMatchResponse(event)), effects |-> <<>>]

\* a key the event does not carry
Absent == [type |-> "absent", val |-> <<>>]

\* the trigger event {httpMethod?, path, body?}
Event(path, verb, body) ==
    IF verb = "" /\ body = Absent THEN [path |-> path]
    ELSE IF body = Absent THEN [path |-> path, httpMethod |-> verb]
    ELSE IF verb = "" THEN [path |-> path, body |-> body]
    ELSE [path |-> path, httpMethod |-> verb, body |-> body]

\* one invocation of the lambda's dispatcher
RouteAndExecute ==
    /\ pc = "idle"
    /\ \E path \in Paths, verb \in Verbs \cup {""}, body \in Bodies \cup {Absent},
          result \in HandlerResults :
        LET event == Event(path, verb, body)
            r == route_and_execute(event, result)
        IN /\ call' = [fn |-> "route_and_execute", event |-> event, result |-> result]
           /\ outcome' = r.outcome
           /\ effects' = r.effects
    /\ pc' = "done"
    /\ UNCHANGED <<environ, ddb_response, lastkey, record_count, loggers>>

InitRoute == InitQuery

NextRoute == RouteAndExecute

SpecRoute == InitRoute /\ [][NextRoute]_vars

\* the route the dispatched event matches, None when it matches none
DispatchedMatch == RoutesMatch(Unquote(call.event["path"]), EventVerb(call.event))

Dispatched == pc = "done" /\ call.fn = "route_and_execute"

BodyAbsentOrEmpty(event) ==
    \/ "body" \notin DOMAIN event
    \/ event["body"] = None
    \/ event["body"] = PyStr(<<>>)

BodyIsJsonString(event) ==
    /\ "body" \in DOMAIN event
    /\ event["body"].type = "str"
    /\ JsonLoads(event["body"]).ok

BodyHasType(event, t) == "body" \in DOMAIN event /\ event["body"].type = t

\* the handler was invoked exactly once, with the match as named arguments and
\* with body, and its result was returned
HandlerInvokedWith(body) ==
    /\ effects = <<HandlerEffect(DispatchedMatch, body)>>
    /\ outcome = Returned(call.result)

\* C3 as claimed: on a match the handler is invoked once with the path
\* parameters and with {} for an absent or empty body, the parsed JSON for a JSON
\* string, and the body itself for a mapping or a sequence.
C3_Original ==
    (Dispatched /\ DispatchedMatch # None) =>
        /\ BodyAbsentOrEmpty(call.event) => HandlerInvokedWith(PyDict(<<>>))
        /\ BodyIsJsonString(call.event) =>
                HandlerInvokedWith(JsonLoads(call.event["body"]).value)
        /\ (BodyHasType(call.event, "dict") \/ BodyHasType(call.event, "list")) =>
                HandlerInvokedWith(call.event["body"])

\* C3 as amended: the same for an absent or empty body, a JSON string and a
\* mapping; a sequence is not passed through: an empty list counts as an empty
\* body and a non-empty list ends the call in a TypeError with no handler invoked.
C3_BodyArgument ==
    (Dispatched /\ DispatchedMatch # None) =>
        /\ BodyAbsentOrEmpty(call.event) => HandlerInvokedWith(PyDict(<<>>))
        /\ BodyIsJsonString(call.event) =>
                HandlerInvokedWith(JsonLoads(call.event["body"]).value)
        /\ BodyHasType(call.event, "dict") => HandlerInvokedWith(call.event["body"])
        /\ BodyHasType(call.event, "list") =>
                IF call.event["body"] = PyList(<<>>)
                THEN HandlerInvokedWith(PyDict(<<>>))
                ELSE effects = <<>> /\ outcome = Raised("TypeError", <<>>)

\* a GET with a path parameter and a JSON object string as body reached its handler
C3_Witness ==
    /\ Dispatched
    /\ DispatchedMatch # None
    /\ "id" \in DOMAIN DispatchedMatch
    /\ BodyIsJsonString(call.event)
    /\ Len(effects) = 1
    /\ effects[1].body = PyDict(<<"a", "1">>)

Contains(hay, needle) ==
    \E i \in 0..(Len(hay) - Len(needle)) : SubSeq(hay, i + 1, i + Len(needle)) = needle

NoHandlerAnd400 ==
    /\ effects = <<>>
    /\ outcome.kind = "return"
    /\ outcome.value.statusCode = 400

\* C4 as claimed: without a match no handler runs, nothing is raised, and the
\* 400 envelope's body contains the event's path as it came in.
C4_Original ==
    (Dispatched /\ DispatchedMatch = None) =>
        /\ NoHandlerAnd400
        /\ Contains(outcome.value.body, call.event["path"])

\* C4 as amended: without a match no handler runs, nothing is raised, and the
\* 400 envelope's body contains the URL-decoded path in its JSON-escaped form,
\* which is the path as it came in when the path holds no percent sign.
C4_NoMatchEnvelope ==
    (Dispatched /\ DispatchedMatch = None) =>
        /\ NoHandlerAnd400
        /\ Contains(outcome.value.body, JsonEscape(Unquote(call.event["path"])))
        /\ (\A i \in 1..Len(call.event["path"]) : call.event["path"][i] # "%") =>
                Contains(outcome.value.body, call.event["path"])

\* an unmatched path with a percent-escape was answered
C4_Witness ==
    /\ Dispatched
    /\ DispatchedMatch = None
    /\ Unquote(call.event["path"]) # call.event["path"]
    /\ outcome.kind = "return"
    /\ outcome.value.statusCode = 400

----------------------------------------------------------------------------
(* boto3helpers.get_table *)

TableEnvVars == {"TABLE", "OTHER_TABLE"}
TableEnvValues == {Unset, PyStr(<<>>), PyStr(<<"t", "1">>), PyStr(<<"t", "2">>)}
TableDefaults == {None, PyStr(<<>>), PyStr(<<"d", "1">>)}

\* boto3.resource('dynamodb').Table(table_name)
TableEffect(table_name) == [kind |-> "Table", name |-> table_name]

\* line 21: f"No environment variable '{env_var}'."
NoEnvVarMessage(env_var) == <<"No environment variable '", env_var, "'.">>

\* get_table with a fault: an empty variable falls back to the default
get_table_or_default(env_var, default_value) ==
    LET table_name == Or(EnvGet(env_var, None), default_value)
    IN IF ~Truthy(table_name)
       THEN [outcome |-> Raised("ValueError", NoEnvVarMessage(env_var)), effects |-> <<>>]
       ELSE [outcome |-> Returned(table_name), effects |-> <<TableEffect(table_name)>>]

\* lines 19-22
get_table(env_var, default_value) ==
    LET table_name == EnvGet(env_var, default_value)
    IN IF ~Truthy(table_name)
       THEN [outcome |-> Raised("ValueError", NoEnvVarMessage(env_var)), effects |-> <<>>]
       ELSE [outcome |-> Returned(table_name), effects |-> <<TableEffect(table_name)>>]

GetTable ==
    /\ pc = "idle"
    /\ \E env_var \in TableEnvVars, default_value \in TableDefaults :
        LET r == get_table(env_var, default_value)
        IN /\ call' = [fn |-> "get_table", env_var |-> env_var,
                       default_value |-> default_value]
           /\ outcome' = r.outcome
           /\ effects' = r.effects
    /\ pc' = "done"
    /\ UNCHANGED <<environ, ddb_response, lastkey, record_count, loggers>>

InitTable ==
    /\ environ \in [EnvNames -> TableEnvValues]
    /\ \A n \in EnvNames \ TableEnvVars : environ[n] = Unset
    /\ call = NoCall
    /\ outcome = NoOutcome
    /\ effects = <<>>
    /\ pc = "idle"
    /\ ddb_response = [Items |-> <<>>]
    /\ lastkey = None
    /\ record_count = 0
    /\ loggers = <<>>

NextTable == GetTable

SpecTable == InitTable /\ [][NextTable]_vars

TableCalled == pc = "done" /\ call.fn = "get_table"

RaisedNoEnvVar == outcome = Raised("ValueError", NoEnvVarMessage(call.env_var)) /\ effects = <<>>

ReturnedTable(name) == outcome = Returned(name) /\ effects = <<TableEffect(name)>>

EnvNonEmpty(n) == environ[n] # Unset /\ environ[n] # PyStr(<<>>)

\* C9 as claimed: get_table raises the error naming env_var exactly when neither
\* the variable nor the default is non-empty; otherwise it returns the table
\* named by the variable if that is non-empty, else by the default.
C9_Original ==
    TableCalled =>
        IF ~EnvNonEmpty(call.env_var) /\ ~Truthy(call.default_value)
        THEN RaisedNoEnvVar
        ELSE ReturnedTable(IF EnvNonEmpty(call.env_var) THEN environ[call.env_var]
                           ELSE call.default_value)

\* C9 as amended: the value looked at is the variable's whenever the variable is
\* set, even to the empty string, and the default only when it is unset;
\* get_table raises the error naming env_var exactly when that value is empty or
\* None, and otherwise returns the table it names.
C9_TableResolution ==
    TableCalled =>
        LET chosen == IF environ[call.env_var] # Unset THEN environ[call.env_var]
                      ELSE call.default_value
        IN IF chosen = None \/ chosen = PyStr(<<>>)
           THEN RaisedNoEnvVar
           ELSE ReturnedTable(chosen)

\* the variable is set to the empty string, the default is not empty, and
\* get_table raised
C9_Witness ==
    /\ TableCalled
    /\ environ[call.env_var] = PyStr(<<>>)
    /\ Truthy(call.default_value)
    /\ outcome.kind = "raise"

----------------------------------------------------------------------------
(* rdshelpers.execute_sql, execute_sql_batch *)

ArnArgs == {None, PyStr(<<>>), PyStr(<<"a">>)}
ArnEnvValues == {Unset, PyStr(<<>>), PyStr(<<"e">>)}
ArnEnvVars == {"AURORA_SECRET_ARN", "AURORA_CLUSTER_ARN", "DATABASE"}
SqlParams == {None, PyList(<<>>), PyList(<<"p">>)}
Sql == PyStr(<<"s">>)

\* what the rds-data client answers
ApiResponse == PyDict(<<"r">>)

SecretMessage == <<"'secret_arn' not set and not defined in AURORA_SECRET_ARN.">>
ClusterMessage == <<"'cluster_arn' not set and not defined in AURORA_CLUSTER_ARN.">>
DatabaseMessage == <<"'database' not set and not defined in DATABASE.">>

\* lines 14-26 (the rds client is the caller's or a new one, never missing)
_verify_params(secret_arn, cluster_arn, database) ==
    LET secret == Or(secret_arn, EnvGet("AURORA_SECRET_ARN", None))
        cluster == Or(cluster_arn, EnvGet("AURORA_CLUSTER_ARN", None))
        db == Or(database, EnvGet("DATABASE", None))
    IN IF secret = None THEN [ok |-> FALSE, error |-> Raised("ValueError", SecretMessage)]
       ELSE IF cluster = None
            THEN [ok |-> FALSE, error |-> Raised("ValueError", ClusterMessage)]
       ELSE IF db = None
            THEN [ok |-> FALSE, error |-> Raised("ValueError", DatabaseMessage)]
       ELSE [ok |-> TRUE, secret_arn |-> secret, cluster_arn |-> cluster, database |-> db]

StatementEffect(kind, ids, sql, params) ==
    [kind |-> kind, resourceArn |-> ids.cluster_arn, secretArn |-> ids.secret_arn,
     database |-> ids.database, sql |-> sql, params |-> params]

\* lines 51-61
execute_sql(sql, params, secret_arn, cluster_arn, database) ==
    LET ids == _verify_params(secret_arn, cluster_arn, database)
    IN IF ~ids.ok THEN [outcome |-> ids.error, effects |-> <<>>]
       ELSE [outcome |-> Returned(ApiResponse),
             effects |-> <<StatementEffect("execute_statement", ids, sql,
                                           Or(params, PyList(<<>>)))>>]

\* execute_sql_batch with a fault: the empty list is short-circuited before
\* the identifiers are verified
execute_sql_batch_early_return(sql, params, secret_arn, cluster_arn, database) ==
    LET ids == _verify_params(secret_arn, cluster_arn, database)
    IN IF params.type \notin {"list", "str", "dict"}
       THEN [outcome |-> Raised("TypeError", <<>>), effects |-> <<>>]
       ELSE IF ~Truthy(params) THEN [outcome |-> Returned(None), effects |-> <<>>]
       ELSE IF ~ids.ok THEN [outcome |-> ids.error, effects |-> <<>>]
       ELSE [outcome |-> Returned(ApiResponse),
             effects |-> <<StatementEffect("batch_execute_statement", ids, sql, params)>>]

\* lines 86-98: len(params) in the first log line needs a sized params
execute_sql_batch(sql, params, secret_arn, cluster_arn, database) ==
    LET ids == _verify_params(secret_arn, cluster_arn, database)
    IN IF params.type \notin {"list", "str", "dict"}
       THEN [outcome |-> Raised("TypeError", <<>>), effects |-> <<>>]
       ELSE IF ~ids.ok THEN [outcome |-> ids.error, effects |-> <<>>]
       ELSE IF ~Truthy(params) THEN [outcome |-> Returned(None), effects |-> <<>>]
       ELSE [outcome |-> Returned(ApiResponse),
             effects |-> <<StatementEffect("batch_execute_statement", ids, sql, params)>>]

RdsCall(fn, params, secret_arn, cluster_arn, database) ==
    [fn |-> fn, sql |-> Sql, params |-> params, secret_arn |-> secret_arn,
     cluster_arn |-> cluster_arn, database |-> database]

ExecuteSql ==
    /\ pc = "idle"
    /\ \E params \in SqlParams, secret_arn \in ArnArgs, cluster_arn \in ArnArgs,
          database \in ArnArgs :
        LET r == execute_sql(Sql, params, secret_arn, cluster_arn, database)
        IN /\ call' = RdsCall("execute_sql", params, secret_arn, cluster_arn, database)
           /\ outcome' = r.outcome
           /\ effects' = r.effects
    /\ pc' = "done"
    /\ UNCHANGED <<environ, ddb_response, lastkey, record_count, loggers>>

ExecuteSqlBatch ==
    /\ pc = "idle"
    /\ \E params \in SqlParams, secret_arn \in ArnArgs, cluster_arn \in ArnArgs,
          database \in ArnArgs :
        LET r == execute_sql_batch(Sql, params, secret_arn, cluster_arn, database)
        IN /\ call' = RdsCall("execute_sql_batch", params, secret_arn, cluster_arn, database)
           /\ outcome' = r.outcome
           /\ effects' = r.effects
    /\ pc' = "done"
    /\ UNCHANGED <<environ, ddb_response, lastkey, record_count, loggers>>

InitRds ==
    /\ environ \in [EnvNames -> ArnEnvValues]
    /\ \A n \in EnvNames \ ArnEnvVars : environ[n] = Unset
    /\ call = NoCall
    /\ outcome = NoOutcome
    /\ effects = <<>>
    /\ pc = "idle"
    /\ ddb_response = [Items |-> <<>>]
    /\ lastkey = None
    /\ record_count = 0
    /\ loggers = <<>>

NextRds == ExecuteSql \/ ExecuteSqlBatch

SpecRds == InitRds /\ [][NextRds]_vars

RdsCalled == pc = "done" /\ call.fn \in {"execute_sql", "execute_sql_batch"}

\* an identifier as the call resolves it: the argument if given, else the variable
Resolved(arg, env_var) ==
    IF arg # None /\ arg # PyStr(<<>>) THEN arg
    ELSE IF environ[env_var] # Unset THEN environ[env_var] ELSE None

ResolvedSecret == Resolved(call.secret_arn, "AURORA_SECRET_ARN")
ResolvedCluster == Resolved(call.cluster_arn, "AURORA_CLUSTER_ARN")
ResolvedDatabase == Resolved(call.database, "DATABASE")

AnyMissing == ResolvedSecret = None \/ ResolvedCluster = None \/ ResolvedDatabase = None

FirstMissingMessage ==
    IF ResolvedSecret = None THEN SecretMessage
    ELSE IF ResolvedCluster = None THEN ClusterMessage
    ELSE DatabaseMessage

ConfigurationError == outcome = Raised("ValueError", FirstMissingMessage) /\ effects = <<>>

SentWithResolved ==
    /\ Len(effects) = 1
    /\ effects[1].kind = (IF call.fn = "execute_sql" THEN "execute_statement"
                          ELSE "batch_execute_statement")
    /\ effects[1].secretArn = ResolvedSecret
    /\ effects[1].resourceArn = ResolvedCluster
    /\ effects[1].database = ResolvedDatabase
    /\ effects[1].sql = call.sql

EmptyBatch == call.fn = "execute_sql_batch" /\ call.params = PyList(<<>>)

\* C5: a call with a missing identifier fails with the configuration error of
\* the first missing one (secret, cluster, database) and sends nothing; a call
\* with none missing sends its statement with exactly the resolved identifiers
\* (a batch with an empty list having nothing to send).
C5_Claim ==
    RdsCalled =>
        IF AnyMissing THEN ConfigurationError
        ELSE ~EmptyBatch => SentWithResolved

\* C6 as claimed: a batch with an empty list returns None, raises nothing and
\* calls nothing, whatever the identifiers and the environment are; a batch with
\* a non-empty list makes exactly one batch call.
C6_Original ==
    (RdsCalled /\ call.fn = "execute_sql_batch" /\ call.params.type = "list") =>
        IF call.params = PyList(<<>>)
        THEN outcome = Returned(None) /\ effects = <<>>
        ELSE ~AnyMissing => SentWithResolved

\* C6 as amended: a batch with an empty list returns None and calls nothing when
\* the identifiers resolve, and fails with the configuration error of the first
\* missing one when they do not: the identifiers are verified first; a batch
\* with a non-empty list whose identifiers resolve makes exactly one batch call.
C6_EmptyBatch ==
    (RdsCalled /\ call.fn = "execute_sql_batch" /\ call.params.type = "list") =>
        IF AnyMissing THEN ConfigurationError
        ELSE IF call.params = PyList(<<>>)
             THEN outcome = Returned(None) /\ effects = <<>>
             ELSE SentWithResolved

\* a batch with an empty list and no secret anywhere was refused
C6_Witness ==
    /\ RdsCalled
    /\ EmptyBatch
    /\ ResolvedSecret = None
    /\ outcome.kind = "raise"

----------------------------------------------------------------------------
(* rdshelpers.make_param *)

FieldNames == {"id", "name", "created"}
FieldTypes == {"string", "date", "bool", "int", "float"}

IsoDate == <<"2", "0", "2", "3", "-", "0", "5", "-", "1", "7">>
IsoDateTime == IsoDate \o <<"T", "1", "0", ":", "0", "0", ":", "0", "0">>

ParamValues ==
    {None, PyStr(<<>>), PyStr(<<"a", "b">>), PyStr(IsoDateTime), PyInt(<<"0">>),
     PyInt(<<"5">>), PyTrue, PyFalse, PyDateTime(IsoDateTime)}

\* lines 170-175
maptype(t) ==
    IF t \in {"string", "date"} THEN "stringValue"
    ELSE IF t \in {"bool"} THEN "booleanValue"
    ELSE "longValue"

\* value[:10]
Slice10(s) == SubSeq(s, 1, IF Len(s) < 10 THEN Len(s) ELSE 10)

\* map_string with a fault: the other lineage, an empty int is null
map_string_empty_int_null(value, t) ==
    LET isnull == value = None
    IN IF t = "date"
       THEN IF ~Truthy(value) THEN [ok |-> TRUE, value |-> value, isnull |-> isnull]
            ELSE IF value.type = "datetime"
                 THEN [ok |-> TRUE, value |-> PyStr(Slice10(value.val)), isnull |-> isnull]
            ELSE IF value.type = "str"
                 THEN [ok |-> TRUE, value |-> PyStr(Slice10(value.val)), isnull |-> isnull]
            ELSE [ok |-> FALSE, error |-> "TypeError"]
       ELSE IF t = "int" /\ value = PyStr(<<>>)
            THEN [ok |-> TRUE, value |-> None, isnull |-> TRUE]
       ELSE IF t \in {"bool"}
            THEN [ok |-> TRUE, value |-> IF Truthy(value) THEN PyTrue ELSE PyFalse,
                  isnull |-> isnull]
       ELSE [ok |-> TRUE, value |-> value, isnull |-> isnull]

\* lines 177-191; strftime("%Y-%m-%d") of a datetime is the date part of its ISO
\* form, and slicing a value that is neither str nor datetime is a TypeError
map_string(value, t) ==
    LET isnull == value = None
    IN IF t = "date"
       THEN IF ~Truthy(value) THEN [ok |-> TRUE, value |-> value, isnull |-> isnull]
            ELSE IF value.type = "datetime"
                 THEN [ok |-> TRUE, value |-> PyStr(Slice10(value.val)), isnull |-> isnull]
            ELSE IF value.type = "str"
                 THEN [ok |-> TRUE, value |-> PyStr(Slice10(value.val)), isnull |-> isnull]
            ELSE [ok |-> FALSE, error |-> "TypeError"]
       ELSE IF t = "int" /\ value = PyStr(<<>>)
            THEN [ok |-> TRUE, value |-> PyInt(<<"0">>), isnull |-> isnull]
       ELSE IF t \in {"bool"}
            THEN [ok |-> TRUE, value |-> IF Truthy(value) THEN PyTrue ELSE PyFalse,
                  isnull |-> isnull]
       ELSE [ok |-> TRUE, value |-> value, isnull |-> isnull]

\* a dict with the one key tag
Tagged(tag, v) == [k \in {tag} |-> v]

\* lines 193-203
make_param(fieldname, value, fieldtype) ==
    LET m == map_string(value, fieldtype)
    IN IF ~m.ok THEN [outcome |-> Raised(m.error, <<>>), effects |-> <<>>]
       ELSE LET wire == IF value = None \/ m.isnull THEN Tagged("isNull", PyTrue)
                        ELSE Tagged(maptype(fieldtype), m.value)
                parameter == IF fieldtype = "date"
                             THEN [name |-> fieldname, value |-> wire, typeHint |-> "DATE"]
                             ELSE [name |-> fieldname, value |-> wire]
            IN [outcome |-> Returned(parameter), effects |-> <<>>]

MakeParam ==
    /\ pc = "idle"
    /\ \E fieldname \in FieldNames, value \in ParamValues, fieldtype \in FieldTypes :
        LET r == make_param(fieldname, value, fieldtype)
        IN /\ call' = [fn |-> "make_param", fieldname |-> fieldname, value |-> value,
                       fieldtype |-> fieldtype]
           /\ outcome' = r.outcome
           /\ effects' = r.effects
    /\ pc' = "done"
    /\ UNCHANGED <<environ, ddb_response, lastkey, record_count, loggers>>

InitParam == InitQuery

NextParam == MakeParam

SpecParam == InitParam /\ [][NextParam]_vars

ParamBuilt == pc = "done" /\ call.fn = "make_param" /\ outcome.kind = "return"

\* C7: the value part of a parameter make_param builds has exactly one tag:
\* isNull (set to True) when the input value is None, whatever the field type,
\* and otherwise the tag of the field type (stringValue for string and date,
\* booleanValue for bool, longValue for the rest), never isNull.
C7_ExactlyOneVariantTag ==
    ParamBuilt =>
        LET wire == outcome.value.value
        IN /\ Cardinality(DOMAIN wire) = 1
           /\ outcome.value.name = call.fieldname
           /\ IF call.value = None
              THEN DOMAIN wire = {"isNull"} /\ wire["isNull"] = PyTrue
              ELSE DOMAIN wire =
                      {CASE call.fieldtype \in {"string", "date"} -> "stringValue"
                         [] call.fieldtype = "bool" -> "booleanValue"
                         [] OTHER -> "longValue"}

\* None was encoded as a date: the null marker replaced the stringValue
C7_Witness ==
    /\ ParamBuilt
    /\ call.value = None
    /\ call.fieldtype = "date"
    /\ DOMAIN outcome.value.value = {"isNull"}

----------------------------------------------------------------------------
(* rdshelpers.get_data *)

\* the longest row and the longest column list
MaxRowLen == 2
\* the most rows of a response
MaxRows == 2

ColumnNames == {"c1", "c2"}
Scalars == {[isNull |-> PyTrue], [stringValue |-> PyStr(<<"a">>)], [longValue |-> PyInt(<<"1">>)]}
\* the sequences over a set up to a length
SeqsUpTo(S, n) == UNION {[1..k -> S] : k \in 0..n}

\* lines 113-116
extract_value(v) ==
    IF "isNull" \in DOMAIN v THEN None ELSE v[CHOOSE k \in DOMAIN v : TRUE]

\* RowDict with a fault: the row is zipped with the columns
RowDictZip(row, columns) ==
    LET n == IF Len(row) < Len(columns) THEN Len(row) ELSE Len(columns)
        last(c) == CHOOSE i \in 1..n : columns[i] = c /\ \A j \in (i + 1)..n : columns[j] # c
    IN [ok |-> TRUE,
        value |-> [c \in {columns[i] : i \in 1..n} |-> extract_value(row[last(c)])]]

\* line 119: {columns[i]: extract_value(v) for i, v in enumerate(row)}; columns[i]
\* past the end of columns is an IndexError, a repeated name keeps its last value
RowDict(row, columns) ==
    LET n == Len(row)
        last(c) == CHOOSE i \in 1..n : columns[i] = c /\ \A j \in (i + 1)..n : columns[j] # c
    IN IF n > Len(columns) THEN [ok |-> FALSE, error |-> "IndexError"]
       ELSE [ok |-> TRUE,
             value |-> [c \in {columns[i] : i \in 1..n} |-> extract_value(row[last(c)])]]

\* lines 117-120
get_data(query_response, columns) ==
    LET records == IF "records" \in DOMAIN query_response THEN query_response["records"]
                   ELSE <<>>
        dicts == [r \in 1..Len(records) |-> RowDict(records[r], columns)]
    IN IF \E r \in 1..Len(records) : ~dicts[r].ok
       THEN [outcome |-> Raised("IndexError", <<>>), effects |-> <<>>]
       ELSE [outcome |-> Returned([r \in 1..Len(records) |-> dicts[r].value]),
             effects |-> <<>>]

\* a response without records, as an update statement's
UpdateResponse == [numberOfRecordsUpdated |-> 0]

GetData ==
    /\ pc = "idle"
    /\ \E rows \in SeqsUpTo(SeqsUpTo(Scalars, MaxRowLen), MaxRows),
          columns \in SeqsUpTo(ColumnNames, MaxRowLen), has_records \in BOOLEAN :
        LET query_response == IF has_records THEN [records |-> rows] ELSE UpdateResponse
            r == get_data(query_response, columns)
        IN /\ has_records \/ rows = <<>>
           /\ call' = [fn |-> "get_data", query_response |-> query_response,
                       columns |-> columns]
           /\ outcome' = r.outcome
           /\ effects' = r.effects
    /\ pc' = "done"
    /\ UNCHANGED <<environ, ddb_response, lastkey, record_count, loggers>>

InitData == InitQuery

NextData == GetData

SpecData == InitData /\ [][NextData]_vars

DataCalled == pc = "done" /\ call.fn = "get_data"

CallRecords ==
    IF "records" \in DOMAIN call.query_response THEN call.query_response["records"] ELSE <<>>

\* the decoded value of a tagged scalar: null for the null marker
Decoded(v) == IF DOMAIN v = {"isNull"} THEN None ELSE v[CHOOSE k \in DOMAIN v : TRUE]

\* mapping pairs the first n values of row with the first n column names
PairsFirst(mapping, row, n) ==
    /\ DOMAIN mapping = {call.columns[i] : i \in 1..n}
    /\ \A i \in 1..n :
        (\A j \in (i + 1)..n : call.columns[j] # call.columns[i]) =>
            mapping[call.columns[i]] = Decoded(row[i])

Shorter(row) == IF Len(row) < Len(call.columns) THEN Len(row) ELSE Len(call.columns)

\* C8 as claimed: get_data returns one mapping per row, pairing values and
\* names positionally up to the shorter of the row and the column list, a null
\* marker decoding to null, and never fails on a length mismatch.
C8_Original ==
    DataCalled =>
        /\ outcome.kind = "return"
        /\ Len(outcome.value) = Len(CallRecords)
        /\ \A r \in 1..Len(CallRecords) :
            PairsFirst(outcome.value[r], CallRecords[r], Shorter(CallRecords[r]))

\* C8 as amended: when no row is longer than the column list, get_data returns
\* one mapping per row, pairing values and names positionally, a null marker
\* decoding to null and the names beyond the row's length dropped; when some row
\* is longer than the column list, get_data fails with an IndexError.
C8_PositionalPairing ==
    DataCalled =>
        IF \A r \in 1..Len(CallRecords) : Len(CallRecords[r]) <= Len(call.columns)
        THEN /\ outcome.kind = "return"
             /\ Len(outcome.value) = Len(CallRecords)
             /\ \A r \in 1..Len(CallRecords) :
                 PairsFirst(outcome.value[r], CallRecords[r], Len(CallRecords[r]))
        ELSE outcome = Raised("IndexError", <<>>)

\* two rows, each shorter than the two-name column list, one with a null marker,
\* were decoded
C8_Witness ==
    /\ DataCalled
    /\ call.columns = <<"c1", "c2">>
    /\ Len(CallRecords) = 2
    /\ CallRecords[1] = <<[stringValue |-> PyStr(<<"a">>)]>>
    /\ CallRecords[2] = <<[isNull |-> PyTrue]>>
    /\ outcome.kind = "return"
    /\ DOMAIN outcome.value[1] = {"c1"}
    /\ outcome.value[2]["c1"] = None

----------------------------------------------------------------------------
(* loghelpers.setup_logger *)

\* the root logger's name; getLogger answers the root logger for None and ""
RootName == <<"r", "o", "o", "t">>
LoggerNames == {None, PyStr(<<>>), PyStr(<<"a">>)}
LoggerIds == {RootName, <<"a">>}

\* logging's numeric levels
NOTSET == PyInt(<<"0">>)
DEBUG == PyInt(<<"1", "0">>)
INFO == PyInt(<<"2", "0">>)
WARNING == PyInt(<<"3", "0">>)
ERROR == PyInt(<<"4", "0">>)

LevelArgs == {None, DEBUG, ERROR}
LogLevelEnvValues == {Unset, PyStr(<<"DEBUG">>), PyStr(<<"WARNING">>)}
LambdaTaskRootValues == {Unset, PyStr(<<"/var/task">>)}
FormatArgs == {None, PyStr(<<"%(message)s">>)}

\* line 6
_DEFAULT_LOGLEVEL == PyStr(<<"INFO">>)

\* lines 9-12, read when the module is imported
_default_formatstr ==
    IF Truthy(EnvGet("LAMBDA_TASK_ROOT", None))
    THEN PyStr(<<"%(levelname)-8s | %(message)s">>)
    ELSE PyStr(<<"%(asctime)s | %(levelname)-8s | %(message)s">>)

\* logging.getLevelName of a level's name
getLevelName(n) ==
    CASE n = PyStr(<<"DEBUG">>) -> DEBUG
      [] n = PyStr(<<"INFO">>) -> INFO
      [] n = PyStr(<<"WARNING">>) -> WARNING
      [] n = PyStr(<<"ERROR">>) -> ERROR

\* logging.getLogger(name): the root logger for a false name or the root's name
getLogger(name) == IF ~Truthy(name) \/ name.val = RootName THEN RootName ELSE name.val

\* the logging module before any setup: the root logger at WARNING, the others unset
FreshLoggers ==
    [id \in LoggerIds |->
        [level |-> IF id = RootName THEN WARNING ELSE NOTSET,
         propagate |-> TRUE,
         handlers |-> <<>>]]

\* line 36: any([_.name == name for _ in logger.handlers])
AlreadyInitialized(logger, name) ==
    \E i \in 1..Len(loggers[logger].handlers) : loggers[logger].handlers[i].name = name

\* lines 40-48: the level set, a named stream handler added, propagation off
Configured(logger, name, level, formatstr) ==
    [loggers EXCEPT ![logger] =
        [level |-> level,
         propagate |-> FALSE,
         handlers |-> Append(@.handlers,
                             [name |-> name, level |-> level, formatter |-> formatstr])]]

\* setup_logger with a fault: the level is set before the guard
setup_logger_level_first(name, level, formatstr) ==
    LET logger == getLogger(name)
        lvl == IF level = None THEN getLevelName(EnvGet("LOGLEVEL", _DEFAULT_LOGLEVEL))
               ELSE level
    IN IF AlreadyInitialized(logger, name)
       THEN [loggers |-> [loggers EXCEPT ![logger].level = lvl], outcome |-> Returned(logger)]
       ELSE [loggers |-> Configured(logger, name, lvl, Or(formatstr, _default_formatstr)),
             outcome |-> Returned(logger)]

\* lines 33-52
setup_logger(name, level, formatstr) ==
    LET logger == getLogger(name)
        lvl == IF level = None THEN getLevelName(EnvGet("LOGLEVEL", _DEFAULT_LOGLEVEL))
               ELSE level
    IN IF AlreadyInitialized(logger, name)
       THEN [loggers |-> loggers, outcome |-> Returned(logger)]
       ELSE [loggers |-> Configured(logger, name, lvl, Or(formatstr, _default_formatstr)),
             outcome |-> Returned(logger)]

SetupLogger ==
    /\ \E name \in LoggerNames, level \in LevelArgs, formatstr \in FormatArgs :
        LET r == setup_logger(name, level, formatstr)
        IN /\ call' = [fn |-> "setup_logger", name |-> name, level |-> level,
                       formatstr |-> formatstr]
           /\ outcome' = r.outcome
           /\ loggers' = r.loggers
    /\ UNCHANGED <<environ, effects, pc, ddb_response, lastkey, record_count>>

InitLogger ==
    /\ environ \in [EnvNames -> LogLevelEnvValues \cup LambdaTaskRootValues]
    /\ environ["LOGLEVEL"] \in LogLevelEnvValues
    /\ environ["LAMBDA_TASK_ROOT"] \in LambdaTaskRootValues
    /\ \A n \in EnvNames \ {"LOGLEVEL", "LAMBDA_TASK_ROOT"} : environ[n] = Unset
    /\ call = NoCall
    /\ outcome = NoOutcome
    /\ effects = <<>>
    /\ pc = "idle"
    /\ ddb_response = [Items |-> <<>>]
    /\ lastkey = None
    /\ record_count = 0
    /\ loggers = FreshLoggers

NextLogger == SetupLogger

SpecLogger == InitLogger /\ [][NextLogger]_vars

\* how many of a logger's handlers carry the name
HandlersNamed(id, name) ==
    Cardinality({i \in 1..Len(loggers[id].handlers) : loggers[id].handlers[i].name = name})

\* the logger a name stands for: the root logger for None and "", else the
\* logger of that name
NamedLogger(name) == IF name = None \/ name = PyStr(<<>>) THEN RootName ELSE name.val

\* the level and the format a first call asks for
AskedLevel(c) ==
    IF c.level # None THEN c.level
    ELSE IF environ["LOGLEVEL"] = Unset THEN INFO
    ELSE getLevelName(environ["LOGLEVEL"])

AskedFormat(c) ==
    IF c.formatstr # None THEN c.formatstr
    ELSE IF environ["LAMBDA_TASK_ROOT"] = Unset
         THEN PyStr(<<"%(asctime)s | %(levelname)-8s | %(message)s">>)
         ELSE PyStr(<<"%(levelname)-8s | %(message)s">>)

\* every logger reached under a name holds at most one handler of that name, and
\* a logger with a name of its own at most one handler at all
OneHandlerPerName ==
    /\ \A name \in LoggerNames : HandlersNamed(NamedLogger(name), name) <= 1
    /\ \A id \in LoggerIds \ {RootName} : Len(loggers[id].handlers) <= 1

\* one call of setup_logger: the first for its name configures the logger, a
\* later one changes nothing
SetupStep ==
    LET id == NamedLogger(call'.name)
    IN /\ outcome' = Returned(id)
       /\ \A other \in LoggerIds \ {id} : loggers'[other] = loggers[other]
       /\ IF HandlersNamed(id, call'.name) = 0
          THEN /\ loggers'[id].handlers =
                      Append(loggers[id].handlers,
                             [name |-> call'.name, level |-> AskedLevel(call'),
                              formatter |-> AskedFormat(call')])
               /\ loggers'[id].level = AskedLevel(call')
               /\ loggers'[id].propagate = FALSE
          ELSE loggers' = loggers

\* C10: after any calls of setup_logger, each named logger holds at most one
\* handler of setup_logger's: the first call for a name adds the handler and sets
\* the level and propagate = False; every later call for that name returns the
\* same logger and leaves handlers, levels and formats as they were, whatever
\* level or format it asks for.
C10_ConfiguredOncePerName == []OneHandlerPerName /\ [][SetupStep]_vars

\* logger "a" was set up, and a later call for "a" asked for another level and
\* another format than the handler has
C10_Witness ==
    /\ call.fn = "setup_logger"
    /\ call.name = PyStr(<<"a">>)
    /\ Len(loggers[<<"a">>].handlers) = 1
    /\ call.level # None
    /\ call.level # loggers[<<"a">>].handlers[1].level
    /\ call.level # loggers[<<"a">>].level
    /\ call.formatstr # None
    /\ call.formatstr # loggers[<<"a">>].handlers[1].formatter
    /\ outcome = Returned(<<"a">>)

====
